---- MODULE Spec2Model ----
(***************************************************************************)
(* Smash Messaging Endpoint: the authentication handshake and the          *)
(* mailbox / relay subsystem of src/src/server.ts, as a state machine.     *)
(*                                                                         *)
(* One action per socket.io event handler (or per run of the connection    *)
(* handler between two awaits).  The registry operations sendDataTo,       *)
(* flushDataQueue and registerMailBox are operators on the registry value  *)
(* that return the new registry and the socket.emit calls they made.       *)
(***************************************************************************)
EXTENDS Integers, Sequences, FiniteSets, TLC

\* ---------------------------------------------------------------- bounds
NConn == 2          \* connection handles (socket objects) ever opened
MaxEnvelopes == 3   \* data events accepted by the relay over a run

\* ------------------------------------------------------ program constants
ChallengeLen == 12  \* crypto.getRandomValues(new Uint8Array(12))

Conns == 1 .. NConn
NoSocket == 0       \* `undefined` in RegisteredUser.socket

\* ------------------------------------------------------------ credentials
\* Key objects (CryptoKey) of well-formed P-256 public keys.
PublicKeys == {"A", "B"}
InvalidKey == "invalid"
\* socket.handshake.auth.key as presented by a peer: the canonical base64
\* SPKI text of a key, another base64 spelling of the same bytes (Buffer.from
\* skips characters outside the alphabet), text that is no key, or nothing.
NoKey == "<none>"
Credentials == {"spki:A", "spki:A~", "spki:B", "incorrect_public_key", NoKey}
ANONYMOUS == "ANONYMOUS"

\* importKey: the key object behind a presented text, or a failure.
importKey(keyEncoded) ==
    CASE keyEncoded = "spki:A"  -> "A"
      [] keyEncoded = "spki:A~" -> "A"
      [] keyEncoded = "spki:B"  -> "B"
      [] OTHER                  -> InvalidKey

\* exportKey: the canonical base64 SPKI text of a key object.
exportKey(k) ==
    CASE k = "A" -> "spki:A"
      [] k = "B" -> "spki:B"
      [] OTHER   -> "spki:?"

Identities == {exportKey(k) : k \in PublicKeys}
\* recipients a `data` event may name
PeerIds == Identities \cup {"non-existent-peer-id"}
\* The i-th data event the relay receives for an existing mailbox carries a
\* session token and a data object of its own, so that every envelope in the
\* relay is told apart from every other.
SessionId(i) == << "session", i >>
DataObject(i) == [length |-> 40 + i]
\* position of an envelope [sessionId, data] in the order of reception
Ordinal(envelopeToken) == envelopeToken[2]

\* ----------------------------------------------------------------- base64
B64Alphabet ==
    << "A","B","C","D","E","F","G","H","I","J","K","L","M","N","O","P",
       "Q","R","S","T","U","V","W","X","Y","Z","a","b","c","d","e","f",
       "g","h","i","j","k","l","m","n","o","p","q","r","s","t","u","v",
       "w","x","y","z","0","1","2","3","4","5","6","7","8","9","+","/" >>

B64Char(n) == B64Alphabet[n + 1]

\* Buffer.prototype.toString('base64'): text as a sequence of characters.
RECURSIVE toBase64(_)
toBase64(bytes) ==
    IF Len(bytes) = 0 THEN << >>
    ELSE IF Len(bytes) = 1 THEN
        << B64Char(bytes[1] \div 4), B64Char((bytes[1] % 4) * 16), "=", "=" >>
    ELSE IF Len(bytes) = 2 THEN
        << B64Char(bytes[1] \div 4),
           B64Char(((bytes[1] % 4) * 16) + (bytes[2] \div 16)),
           B64Char((bytes[2] % 16) * 4), "=" >>
    ELSE
        << B64Char(bytes[1] \div 4),
           B64Char(((bytes[1] % 4) * 16) + (bytes[2] \div 16)),
           B64Char(((bytes[2] % 16) * 4) + (bytes[3] \div 64)),
           B64Char(bytes[3] % 64) >>
        \o toBase64(SubSeq(bytes, 4, Len(bytes)))

\* ------------------------------------------------------------- challenges
NoNonce == << >>
\* crypto.getRandomValues(new Uint8Array(12)) for the challenge plaintext of
\* socket c.  Only equality of nonces is ever observed, and two draws of 96
\* random bits are taken to differ: each socket gets a value of its own.
RandomChallenge(c) == [i \in 1 .. ChallengeLen |-> ((c - 1) * 37 + (i - 1)) % 256]
Nonces == {RandomChallenge(c) : c \in Conns}
\* crypto.getRandomValues(new Uint8Array(12)) for the iv: one value, distinct
\* from every nonce, stands for the draw.
RandomIv == [i \in 1 .. ChallengeLen |-> 200 + i]
IVs == {RandomIv}
IncorrectSolution ==
    << "i","n","c","o","r","r","e","c","t","_","s","o","l","u","t","i","o","n" >>
\* challengeBuf.toString(SME_CONFIG.challengeEncoding), tabulated over the
\* buffers a closure can hold
challengeBufToString == [buf \in Nonces \cup {NoNonce} |-> toBase64(buf)]
\* ivBuf.toString(SME_CONFIG.challengeEncoding), tabulated likewise
ivBufToString == [buf \in IVs |-> toBase64(buf)]
\* values a peer may submit in `register`
Solutions == {toBase64(n) : n \in Nonces} \cup {IncorrectSolution}

\* deriveKey leaving the peer's public key out of the agreement.
deriveKeyOfRelay(clientPublicKey) == {"SME"}

\* subtle.deriveKey: ECDH between the relay's key pair and the peer's key.
deriveKey(clientPublicKey) == {"SME", clientPublicKey}
\* subtle.encrypt (AES-GCM), symbolically.
encrypt(symKey, iv, plaintext) == [key |-> symKey, iv |-> iv, pt |-> plaintext]


\* ------------------------------------------------- the peer's side
\* Buffer.from(text, 'base64')
B64Index(ch) == CHOOSE n \in 0 .. 63 : B64Alphabet[n + 1] = ch

RECURSIVE fromBase64(_)
fromBase64(text) ==
    IF Len(text) < 4 THEN << >>
    ELSE LET a == B64Index(text[1])
             b == B64Index(text[2])
             c == B64Index(text[3])
             d == B64Index(text[4])
         IN  IF text[3] = "=" THEN << (a * 4) + (b \div 16) >>
             ELSE IF text[4] = "="
             THEN << (a * 4) + (b \div 16), ((b % 16) * 16) + (c \div 4) >>
             ELSE << (a * 4) + (b \div 16), ((b % 16) * 16) + (c \div 4),
                     ((c % 4) * 64) + d >>
                  \o fromBase64(SubSeq(text, 5, Len(text)))

\* the relay's public key, as the peer holds it
SmePublicKey == "SME"
\* subtle.deriveKey on the peer's side: ECDH between the peer's private key
\* and the relay's public key; it is the secret the relay derives from its
\* private key and the public key of the same pair.
clientDeriveKey(keyPair, smePublicKey) == {smePublicKey, keyPair}
\* subtle.decrypt (AES-GCM): the tag verifies under the key and the iv of the
\* encryption only; otherwise the call rejects.
decrypt(symKey, iv, ciphertext) ==
    IF ciphertext.key = symKey /\ ciphertext.iv = iv
    THEN [ok |-> TRUE, pt |-> ciphertext.pt]
    ELSE [ok |-> FALSE, pt |-> << >>]
\* AuthenticatedClient.solveChallenge: what the holder of keyPair sends in
\* `register` on the `challenge` event data (nothing when decrypt rejects).
solveChallenge(keyPair, data) ==
    LET ivBuffer == fromBase64(data.iv)
        symmetricKey == clientDeriveKey(keyPair, SmePublicKey)
        decrypted == decrypt(symmetricKey, ivBuffer, data.challenge)
    IN  [sent |-> decrypted.ok, solvedChallenge |-> toBase64(decrypted.pt)]

\* ------------------------------------------------------------ short ids
\* Peer ids as texts: sequences of characters, '=' being the base64 padding.
MaxStrLen == 5
StrAlphabet == {"a", "b", "c", "="}
Strings == UNION {[1 .. n -> StrAlphabet] : n \in 0 .. MaxStrLen}

\* String.prototype.substring: both indices are clamped to 0 .. length and
\* swapped when start > end; the characters start .. end - 1 are returned.
substring(str, start, end) ==
    LET clamp(i) == IF i < 0 THEN 0 ELSE IF i > Len(str) THEN Len(str) ELSE i
        from == IF clamp(start) <= clamp(end) THEN clamp(start) ELSE clamp(end)
        to == IF clamp(start) <= clamp(end) THEN clamp(end) ELSE clamp(start)
    IN  SubSeq(str, from + 1, to)

\* str.replaceAll(ch, '')
replaceAll(str, ch) == SelectSeq(str, LAMBDA x : x # ch)

\* export const last4 = (str) => str.substring(str.length - 6, str.length - 2)
last4(str) == substring(str, Len(str) - 6, Len(str) - 2)

\* ------------------------------------------------------------------ state
VARIABLES
    pc,                 \* where the connection handler of each socket stands
    connected,          \* socket.connected
    key,                \* the peer's key text as the connection handler holds it:
                        \* socket.handshake.auth.key until the import and export
                        \* of the key resolve, clientKeyId from then on
    recovered,          \* socket.recovered
    challengeBuf,       \* the closure's challengeBuf (plaintext nonce)
    REGISTERED_USERS,   \* keyId -> [socket, queue]
    accepted,           \* number of data objects received for an existing mailbox
    emits,              \* socket.emit calls of the last step, in order
    lastOp,             \* the event the last step handled
    solved,             \* history: the socket has sent, in `register`, the
                        \* base64 text of the nonce issued to it
    lastDelivered       \* history: ordinal of the last envelope emitted per keyId

vars == << pc, connected, key, recovered, challengeBuf,
           REGISTERED_USERS, accepted, emits, lastOp, solved, lastDelivered >>

\* const auth = !!socket.handshake.auth.key
auth(c) == key[c] # NoKey

\* const clientKeyId = auth ? await exportKey(clientPublicKey!) : 'ANONYMOUS'
clientKeyId(c) == IF auth(c) THEN exportKey(importKey(key[c])) ELSE ANONYMOUS

\* socket.on('data', ...) has run
HasDataHandler(c) == pc[c] \in {"await_derive", "ready", "threw"}
\* The challenge block entered on !socket.recovered alone.
HasRegisterHandlerNoAuth(c) == pc[c] = "ready" /\ ~recovered[c]

\* socket.on('register', ...) has run
HasRegisterHandler(c) == pc[c] = "ready" /\ auth(c) /\ ~recovered[c]
\* socket.on('disconnect', ...) has run
HasDisconnectHandler(c) == pc[c] = "ready"

\* --------------------------------------------------------------- registry
\* Object.hasOwn(REGISTERED_USERS, keyId)
hasOwn(users, keyId) == keyId \in DOMAIN users

DataEvent(socket, keyId, envelope) ==
    [to |-> socket, type |-> "data", token |-> envelope[1],
     payload |-> envelope[2], for |-> keyId]

\* FlushLoop taking the envelopes from the back of the queue (pop for shift).
RECURSIVE FlushLoopPop(_, _, _)
FlushLoopPop(recipient, keyId, out) ==
    IF Len(recipient.queue) > 0
    THEN FlushLoopPop([recipient EXCEPT !.queue = SubSeq(@, 1, Len(@) - 1)], keyId,
                      Append(out, DataEvent(recipient.socket, keyId,
                                            recipient.queue[Len(recipient.queue)])))
    ELSE [recipient |-> recipient, emits |-> out]

\* FlushLoop emitting the queue without removing what it emits (forEach for
\* the shift loop).
FlushLoopKeeps(recipient, keyId, out) ==
    [recipient |-> recipient,
     emits |-> out \o [i \in 1 .. Len(recipient.queue) |->
                          DataEvent(recipient.socket, keyId, recipient.queue[i])]]

\* while (recipient.queue.length) { shift(); recipient.socket.emit(...) }
RECURSIVE FlushLoop(_, _, _)
FlushLoop(recipient, keyId, out) ==
    IF Len(recipient.queue) > 0
    THEN FlushLoop([recipient EXCEPT !.queue = Tail(@)], keyId,
                   Append(out, DataEvent(recipient.socket, keyId,
                                         Head(recipient.queue))))
    ELSE [recipient |-> recipient, emits |-> out]

\* flushDataQueue emitting one envelope only (`if` for `while`).
flushDataQueueOnce(users, keyId) ==
    IF hasOwn(users, keyId) /\ users[keyId].socket # NoSocket /\ Len(users[keyId].queue) > 0
    THEN [users |-> [users EXCEPT ![keyId].queue = Tail(@)],
          emits |-> << DataEvent(users[keyId].socket, keyId, Head(users[keyId].queue)) >>]
    ELSE [users |-> users, emits |-> << >>]

\* flushDataQueue emitting to every authenticated socket of the identity
\* (a room of keyId) in place of the one socket of the mailbox.
flushDataQueueRoom(users, keyId) ==
    IF hasOwn(users, keyId) /\ users[keyId].socket # NoSocket
    THEN LET members == {users[keyId].socket} \cup
                        {c \in Conns : connected[c] /\ solved[c] /\ clientKeyId(c) = keyId}
             q == users[keyId].queue
             all == [j \in 1 .. (Len(q) * NConn) |->
                        DataEvent(((j - 1) % NConn) + 1, keyId, q[((j - 1) \div NConn) + 1])]
         IN  [users |-> [users EXCEPT ![keyId].queue = << >>],
              emits |-> SelectSeq(all, LAMBDA e : e.to \in members)]
    ELSE [users |-> users, emits |-> << >>]

\* const recipient = REGISTERED_USERS[keyId]; if (recipient?.socket) { ... }
flushDataQueue(users, keyId) ==
    IF hasOwn(users, keyId) /\ users[keyId].socket # NoSocket
    THEN LET r == FlushLoop(users[keyId], keyId, << >>)
         IN  [users |-> [users EXCEPT ![keyId] = r.recipient], emits |-> r.emits]
    ELSE [users |-> users, emits |-> << >>]

\* sendDataTo flushing before it queues the envelope (the two statements
\* swapped).
sendDataToFlushFirst(users, keyId, sessionId, data) ==
    LET flushed == flushDataQueue(users, keyId)
    IN  [users |-> IF hasOwn(flushed.users, keyId)
                   THEN [flushed.users EXCEPT ![keyId].queue = Append(@, <<sessionId, data>>)]
                   ELSE flushed.users,
         emits |-> flushed.emits]

\* sendDataTo emitting the envelope to the bound socket itself and leaving it
\* in the queue.
sendDataToEmitsAndKeeps(users, keyId, sessionId, data) ==
    [users |-> IF hasOwn(users, keyId)
               THEN [users EXCEPT ![keyId].queue = Append(@, <<sessionId, data>>)]
               ELSE users,
     emits |-> IF hasOwn(users, keyId) /\ users[keyId].socket # NoSocket
               THEN << DataEvent(users[keyId].socket, keyId, <<sessionId, data>>) >>
               ELSE << >>]

\* sendDataTo that queues the envelope and does not flush.
sendDataToNoFlush(users, keyId, sessionId, data) ==
    [users |-> IF hasOwn(users, keyId)
               THEN [users EXCEPT ![keyId].queue = Append(@, <<sessionId, data>>)]
               ELSE users,
     emits |-> << >>]

\* REGISTERED_USERS[keyId]?.queue.push([sessionId, data]); flushDataQueue(keyId)
sendDataTo(users, keyId, sessionId, data) ==
    LET pushed == IF hasOwn(users, keyId)
                  THEN [users EXCEPT ![keyId].queue = Append(@, <<sessionId, data>>)]
                  ELSE users
    IN  flushDataQueue(pushed, keyId)

\* registerMailBox that keeps the socket an existing mailbox is bound to
\* (socket ??= recipientSocket).
registerMailBoxKeepsSocket(users, keyId, recipientSocket) ==
    IF hasOwn(users, keyId)
    THEN flushDataQueue([users EXCEPT ![keyId].socket =
                            IF @ = NoSocket THEN recipientSocket ELSE @], keyId)
    ELSE [users |-> [k \in DOMAIN users \cup {keyId} |->
                        IF k = keyId
                        THEN [socket |-> recipientSocket, queue |-> << >>]
                        ELSE users[k]],
          emits |-> << >>]

\* registerMailBox that creates the mailbox without binding the socket.
registerMailBoxUnbound(users, keyId, recipientSocket) ==
    IF hasOwn(users, keyId)
    THEN flushDataQueue([users EXCEPT ![keyId].socket = recipientSocket], keyId)
    ELSE [users |-> [k \in DOMAIN users \cup {keyId} |->
                        IF k = keyId
                        THEN [socket |-> NoSocket, queue |-> << >>]
                        ELSE users[k]],
          emits |-> << >>]

\* registerMailBox that rebinds an existing mailbox without flushing it.
registerMailBoxNoFlush(users, keyId, recipientSocket) ==
    IF hasOwn(users, keyId)
    THEN [users |-> [users EXCEPT ![keyId].socket = recipientSocket], emits |-> << >>]
    ELSE [users |-> [k \in DOMAIN users \cup {keyId} |->
                        IF k = keyId
                        THEN [socket |-> recipientSocket, queue |-> << >>]
                        ELSE users[k]],
          emits |-> << >>]

\* registerMailBox that makes a new mailbox on every registration.
registerMailBoxRecreates(users, keyId, recipientSocket) ==
    [users |-> [k \in DOMAIN users \cup {keyId} |->
                   IF k = keyId
                   THEN [socket |-> recipientSocket, queue |-> << >>]
                   ELSE users[k]],
     emits |-> << >>]

registerMailBox(users, keyId, recipientSocket) ==
    IF hasOwn(users, keyId)
    THEN flushDataQueue([users EXCEPT ![keyId].socket = recipientSocket], keyId)
    ELSE [users |-> [k \in DOMAIN users \cup {keyId} |->
                        IF k = keyId
                        THEN [socket |-> recipientSocket, queue |-> << >>]
                        ELSE users[k]],
          emits |-> << >>]

\* The disconnect handler clearing the socket of every mailbox.
onDisconnectUnbindsAll(users, keyId) ==
    [k \in DOMAIN users |-> [users[k] EXCEPT !.socket = NoSocket]]

\* The disconnect handler leaving the socket reference in place.
onDisconnectKeepsSocket(users, keyId) == users

\* The disconnect handler deleting the mailbox (delete REGISTERED_USERS[keyId]).
onDisconnectDeletes(users, keyId) ==
    [k \in DOMAIN users \ {keyId} |-> users[k]]

\* if (REGISTERED_USERS[clientKeyId]) REGISTERED_USERS[clientKeyId].socket = undefined
onDisconnect(users, keyId) ==
    IF hasOwn(users, keyId)
    THEN [users EXCEPT ![keyId].socket = NoSocket]
    ELSE users

\* ordinal of the last envelope emitted for each keyId, after the calls in out
DeliveredAfter(out) ==
    [k \in Identities |->
        LET mine == SelectSeq(out, LAMBDA e : e.type = "data" /\ e.for = k)
        IN  IF Len(mine) = 0 THEN lastDelivered[k]
            ELSE Ordinal(mine[Len(mine)].token)]

\* ------------------------------------------------------------------- init
Init ==
    /\ pc = [c \in Conns |-> "new"]
    /\ connected = [c \in Conns |-> FALSE]
    /\ key = [c \in Conns |-> NoKey]
    /\ recovered = [c \in Conns |-> FALSE]
    /\ challengeBuf = [c \in Conns |-> NoNonce]
    /\ REGISTERED_USERS = << >>
    /\ accepted = 0
    /\ emits = << >>
    /\ lastOp = [op |-> "init", c |-> 0]
    /\ solved = [c \in Conns |-> FALSE]
    /\ lastDelivered = [k \in Identities |-> 0]

\* ------------------------------------------------------------ connection
\* The middleware calling next() whatever the import does.
MiddlewareAcceptsAll(k) == TRUE

\* io.use middleware: a presented key that cannot be imported rejects the
\* connection.
MiddlewareAccepts(k) == k = NoKey \/ importKey(k) # InvalidKey

\* A peer opens a connection; the middleware runs, and on acceptance the
\* connection handler runs up to its first await (to its end when no key
\* was presented).
Connect(c, k) ==
    /\ pc[c] = "new"
    /\ \A d \in 1 .. (c - 1) : pc[d] # "new"   \* handles are handed out in order
    /\ key' = [key EXCEPT ![c] = k]
    /\ IF ~MiddlewareAccepts(k)
       THEN /\ pc' = [pc EXCEPT ![c] = "rejected"]
            /\ UNCHANGED connected
       ELSE /\ pc' = [pc EXCEPT ![c] = IF k = NoKey THEN "ready" ELSE "await_import"]
            /\ connected' = [connected EXCEPT ![c] = TRUE]
    /\ emits' = << >>
    /\ lastOp' = [op |-> "connect", c |-> c]
    /\ UNCHANGED << recovered, challengeBuf, REGISTERED_USERS, accepted, solved,
                    lastDelivered >>

\* importClientPublicKey and exportKey have resolved: the data handler is
\* installed and socket.recovered (rec) is read; a recovered socket also gets
\* its disconnect handler here.
AfterImport(c, rec) ==
    /\ pc[c] = "await_import"
    /\ recovered' = [recovered EXCEPT ![c] = rec]
    /\ pc' = [pc EXCEPT ![c] = IF ~rec /\ auth(c) THEN "await_derive" ELSE "ready"]
    /\ key' = [key EXCEPT ![c] = clientKeyId(c)]
    /\ emits' = << >>
    /\ lastOp' = [op |-> "afterImport", c |-> c]
    /\ UNCHANGED << connected, challengeBuf,
                    REGISTERED_USERS, accepted, solved, lastDelivered >>

\* IssueChallenge sending the text of challengeBuf where that of ivBuf is meant
\* (iv: challengeBuf.toString(...)).
IssueChallengeSendsNonce(c, iv, challenge) ==
    /\ pc[c] = "await_derive"
    /\ pc' = [pc EXCEPT ![c] = "ready"]
    /\ challengeBuf' = [challengeBuf EXCEPT ![c] = challenge]
    /\ emits' = << [to |-> c, type |-> "challenge", iv |-> challengeBufToString[challenge],
                    challenge |-> encrypt(deriveKey(importKey(key[c])), iv, challenge)] >>
    /\ lastOp' = [op |-> "challenge", c |-> c]
    /\ UNCHANGED << connected, key, recovered,
                    REGISTERED_USERS, accepted, solved, lastDelivered >>

\* deriveKey and encrypt have resolved: the register handler is installed,
\* the challenge is emitted and the disconnect handler is installed.
IssueChallenge(c, iv, challenge) ==
    /\ pc[c] = "await_derive"
    /\ pc' = [pc EXCEPT ![c] = "ready"]
    /\ challengeBuf' = [challengeBuf EXCEPT ![c] = challenge]
    /\ emits' = << [to |-> c, type |-> "challenge", iv |-> ivBufToString[iv],
                    challenge |-> encrypt(deriveKey(importKey(key[c])), iv, challenge)] >>
    /\ lastOp' = [op |-> "challenge", c |-> c]
    /\ UNCHANGED << connected, key, recovered,
                    REGISTERED_USERS, accepted, solved, lastDelivered >>

\* deriveKey (or encrypt) rejects, e.g. because socket.handshake.auth.keyAlgorithm,
\* which the peer supplies, is not usable: the async connection handler ends
\* with a rejection nothing catches, before the register and disconnect
\* handlers are installed.  The socket is left connected with its data
\* handler.  (Where the runtime ends the process on an unhandled rejection,
\* the behaviour ends here: no further step is taken.)
DeriveFails(c) ==
    /\ pc[c] = "await_derive"
    /\ pc' = [pc EXCEPT ![c] = "threw"]
    /\ emits' = << >>
    /\ lastOp' = [op |-> "deriveFails", c |-> c]
    /\ UNCHANGED << connected, key, recovered, challengeBuf,
                    REGISTERED_USERS, accepted, solved, lastDelivered >>


\* ---------------------------------------------------------------- handlers
\* onData testing the mailbox of the sender where that of the recipient is
\* meant (Object.hasOwn(REGISTERED_USERS, clientKeyId)).
onDataChecksSender(users, c, peerId, sessionId, data) ==
    IF ~hasOwn(users, clientKeyId(c))
    THEN [users |-> users,
          emits |-> << [to |-> c, type |-> "error", code |-> 404, peer |-> peerId] >>]
    ELSE sendDataTo(users, peerId, sessionId, data)

\* onData without the Object.hasOwn check.
onDataUnchecked(users, c, peerId, sessionId, data) ==
    sendDataTo(users, peerId, sessionId, data)

\* socket.on('data', (peerId, sessionId, data) => ...)
onData(users, c, peerId, sessionId, data) ==
    IF ~hasOwn(users, peerId)
    THEN [users |-> users,
          emits |-> << [to |-> c, type |-> "error", code |-> 404, peer |-> peerId] >>]
    ELSE sendDataTo(users, peerId, sessionId, data)

\* A `data` event arrives on a socket whose data handler is installed.
Data(c, peerId) ==
    /\ connected[c]
    /\ HasDataHandler(c)
    /\ hasOwn(REGISTERED_USERS, peerId) => accepted < MaxEnvelopes
    /\ LET r == onData(REGISTERED_USERS, c, peerId,
                       SessionId(accepted + 1), DataObject(accepted + 1))
       IN  /\ REGISTERED_USERS' = r.users
           /\ emits' = r.emits
           /\ lastDelivered' = DeliveredAfter(r.emits)
    /\ accepted' = IF hasOwn(REGISTERED_USERS, peerId) THEN accepted + 1 ELSE accepted
    /\ lastOp' = [op |-> "data", c |-> c]
    /\ UNCHANGED << pc, connected, key, recovered, challengeBuf, solved >>

\* A `data` event arrives while the connection handler is still awaiting the
\* key import: no listener is installed yet, the event is dropped.
DataUnhandled(c) ==
    /\ connected[c]
    /\ ~HasDataHandler(c)
    /\ emits' = << >>
    /\ lastOp' = [op |-> "dataUnhandled", c |-> c]
    /\ UNCHANGED << pc, connected, key, recovered, challengeBuf,
                    REGISTERED_USERS, accepted, solved, lastDelivered >>

\* ChallengeSolved comparing with the nonce of any socket (one challengeBuf
\* held outside the connection closure).
ChallengeSolvedAnyNonce(c, solvedChallengeAsString) ==
    \E d \in Conns : /\ challengeBuf[d] # NoNonce
                     /\ solvedChallengeAsString = challengeBufToString[challengeBuf[d]]

\* ChallengeSolved accepting the solution once per socket (the nonce is
\* consumed by the first successful register).
ChallengeSolvedOnce(c, solvedChallengeAsString) ==
    /\ solvedChallengeAsString = challengeBufToString[challengeBuf[c]]
    /\ ~solved[c]

\* ChallengeSolved with the comparison inverted (!== for ===).
ChallengeSolvedInverted(c, solvedChallengeAsString) ==
    solvedChallengeAsString # challengeBufToString[challengeBuf[c]]

\* solvedChallengeAsString === challengeBuf.toString(SME_CONFIG.challengeEncoding)
ChallengeSolved(c, solvedChallengeAsString) ==
    solvedChallengeAsString = challengeBufToString[challengeBuf[c]]

\* Close tearing down every socket when one disconnects
\* (io.disconnectSockets for socket.disconnect).
CloseEvery(f, c, closes, blank) == [d \in DOMAIN f |-> IF closes THEN blank ELSE f[d]]

\* The state of a socket after it has disconnected.  Nothing reads a closed
\* socket any more: the listeners its connection handler may still install
\* never fire and socket.io discards what is emitted to it.
Close(f, c, closes, blank) == [f EXCEPT ![c] = IF closes THEN blank ELSE @]

\* onRegister that only logs a failed challenge.
onRegisterNoDisconnect(users, c, solvedChallengeAsString) ==
    IF ChallengeSolved(c, solvedChallengeAsString)
    THEN LET r == registerMailBox(users, clientKeyId(c), c)
         IN  [users |-> r.users, emits |-> r.emits, disconnect |-> FALSE]
    ELSE [users |-> users, emits |-> << >>, disconnect |-> FALSE]

\* socket.on('register', async (solvedChallengeAsString) => ...); on a
\* mismatch socket.disconnect(true) runs the socket's disconnect handler
\* before it returns.
onRegister(users, c, solvedChallengeAsString) ==
    IF ChallengeSolved(c, solvedChallengeAsString)
    THEN LET r == registerMailBox(users, clientKeyId(c), c)
         IN  [users |-> r.users, emits |-> r.emits, disconnect |-> FALSE]
    ELSE [users |-> onDisconnect(users, clientKeyId(c)), emits |-> << >>,
          disconnect |-> TRUE]

\* A `register` event arrives on a socket whose register handler is installed.
Register(c, solvedChallengeAsString) ==
    /\ connected[c]
    /\ HasRegisterHandler(c)
    /\ LET r == onRegister(REGISTERED_USERS, c, solvedChallengeAsString)
           nowSolved == solved[c] \/ solvedChallengeAsString = challengeBufToString[challengeBuf[c]]
       IN  /\ REGISTERED_USERS' = r.users
           /\ emits' = r.emits
           /\ lastDelivered' = DeliveredAfter(r.emits)
           /\ connected' = [connected EXCEPT ![c] = ~r.disconnect]
           /\ pc' = Close(pc, c, r.disconnect, "closed")
           /\ key' = Close(key, c, r.disconnect, NoKey)
           /\ recovered' = Close(recovered, c, r.disconnect, FALSE)
           /\ challengeBuf' = Close(challengeBuf, c, r.disconnect, NoNonce)
           /\ solved' = Close([solved EXCEPT ![c] = nowSolved], c, r.disconnect, FALSE)
    /\ lastOp' = [op |-> "register", c |-> c]
    /\ UNCHANGED << accepted >>

\* A `register` event arrives on a socket that has no register handler (an
\* anonymous or recovered socket, or one still in its connection handler).
RegisterUnhandled(c, solvedChallengeAsString) ==
    /\ connected[c]
    /\ ~HasRegisterHandler(c)
    /\ emits' = << >>
    /\ lastOp' = [op |-> "registerUnhandled", c |-> c]
    /\ UNCHANGED << pc, connected, key, recovered, challengeBuf,
                    REGISTERED_USERS, accepted, solved, lastDelivered >>

\* The peer closes the connection or the transport drops: socket.io emits
\* `disconnect` to the listener, if it is installed by then.
Disconnect(c) ==
    /\ connected[c]
    /\ connected' = [connected EXCEPT ![c] = FALSE]
    /\ REGISTERED_USERS' = IF HasDisconnectHandler(c)
                           THEN onDisconnect(REGISTERED_USERS, clientKeyId(c))
                           ELSE REGISTERED_USERS
    /\ pc' = Close(pc, c, TRUE, "closed")
    /\ key' = Close(key, c, TRUE, NoKey)
    /\ recovered' = Close(recovered, c, TRUE, FALSE)
    /\ challengeBuf' = Close(challengeBuf, c, TRUE, NoNonce)
    /\ solved' = Close(solved, c, TRUE, FALSE)
    /\ emits' = << >>
    /\ lastOp' = [op |-> "disconnect", c |-> c]
    /\ UNCHANGED << accepted, lastDelivered >>

\* ------------------------------------------------------------------- spec
Next ==
    \E c \in Conns :
        \/ \E k \in Credentials : Connect(c, k)
        \/ \E rec \in BOOLEAN : AfterImport(c, rec)
        \/ \E iv \in IVs : IssueChallenge(c, iv, RandomChallenge(c))
        \/ DeriveFails(c)
        \/ \E p \in PeerIds : Data(c, p)
        \/ DataUnhandled(c)
        \/ \E v \in Solutions : Register(c, v)
        \/ \E v \in Solutions : RegisterUnhandled(c, v)
        \/ Disconnect(c)

Spec == Init /\ [][Next]_vars

\* ------------------------------------------------- the 404 message alone
\* A relay with one anonymous socket connected and no mailbox: every peer id
\* is unknown, and every `data` event is answered with the 404 error whose
\* message names last4(peerId).
InitShortId ==
    /\ pc = [c \in Conns |-> IF c = 1 THEN "ready" ELSE "new"]
    /\ connected = [c \in Conns |-> c = 1]
    /\ key = [c \in Conns |-> NoKey]
    /\ recovered = [c \in Conns |-> FALSE]
    /\ challengeBuf = [c \in Conns |-> NoNonce]
    /\ REGISTERED_USERS = << >>
    /\ accepted = 0
    /\ emits = << >>
    /\ lastOp = [op |-> "connect", c |-> 1]
    /\ solved = [c \in Conns |-> FALSE]
    /\ lastDelivered = [k \in Identities |-> 0]

\* socket.on('data') for a peer id, given as a text, that has no mailbox:
\* socket.emit('error', {code: 404, message: `Peer ${last4(peerId)} not found`})
PeerNotFound(c, peerId) ==
    /\ connected[c]
    /\ HasDataHandler(c)
    /\ ~hasOwn(REGISTERED_USERS, peerId)
    /\ emits' = << [to |-> c, type |-> "error", code |-> 404, peer |-> peerId,
                    message |-> << "Peer ", last4(peerId), " not found" >>] >>
    /\ lastOp' = [op |-> "data", c |-> c]
    /\ UNCHANGED << pc, connected, key, recovered, challengeBuf,
                    REGISTERED_USERS, accepted, solved, lastDelivered >>

NextShortId == \E c \in Conns, peerId \in Strings : PeerNotFound(c, peerId)

SpecShortId == InitShortId /\ [][NextShortId]_vars

TypeOK ==
    /\ pc \in [Conns -> {"new", "rejected", "await_import", "await_derive", "ready", "threw", "closed"}]
    /\ connected \in [Conns -> BOOLEAN]
    /\ key \in [Conns -> Credentials]
    /\ challengeBuf \in [Conns -> Nonces \cup {NoNonce}]
    /\ DOMAIN REGISTERED_USERS \subseteq Identities
    /\ \A k \in DOMAIN REGISTERED_USERS :
          /\ REGISTERED_USERS[k].socket \in Conns \cup {NoSocket}
          /\ Len(REGISTERED_USERS[k].queue) <= MaxEnvelopes
    /\ accepted \in 0 .. MaxEnvelopes


\* ================================================================ claims
\* the socket bound to the mailbox of keyId, NoSocket when there is none
Bound(keyId) ==
    IF hasOwn(REGISTERED_USERS, keyId) THEN REGISTERED_USERS[keyId].socket ELSE NoSocket

\* the `data` emits of out that deliver envelopes of keyId
DataFor(out, keyId) == SelectSeq(out, LAMBDA e : e.type = "data" /\ e.for = keyId)

\* the envelope the next accepted `data` event puts into a mailbox
NextEnvelope == << SessionId(accepted + 1), DataObject(accepted + 1) >>

\* the emits that hand the envelopes of queue, in order, to socket
Delivery(socket, keyId, queue) ==
    [i \in 1 .. Len(queue) |-> DataEvent(socket, keyId, queue[i])]

\* C1 - Authentication soundness: the socket bound to the mailbox of identity
\* I, and every socket that is emitted an envelope of I, is a connected socket
\* that presented the public key of I and has sent, in `register`, the base64
\* text of the nonce issued to that same socket.
C1_AuthenticationSoundness ==
    /\ \A k \in DOMAIN REGISTERED_USERS :
          LET c == REGISTERED_USERS[k].socket
          IN  c # NoSocket =>
                 /\ connected[c]
                 /\ importKey(key[c]) \in PublicKeys
                 /\ exportKey(importKey(key[c])) = k
                 /\ solved[c]
    /\ \A i \in 1 .. Len(emits) :
          emits[i].type = "data" =>
             /\ importKey(key[emits[i].to]) \in PublicKeys
             /\ exportKey(importKey(key[emits[i].to])) = emits[i].for
             /\ solved[emits[i].to]

\* a socket is bound to a mailbox and has just been emitted an envelope
C1_Witness ==
    \E k \in DOMAIN REGISTERED_USERS :
        /\ REGISTERED_USERS[k].socket # NoSocket
        /\ Len(emits) > 0
        /\ emits[1].type = "data"
        /\ emits[1].to = REGISTERED_USERS[k].socket
        /\ emits[1].for = k

\* C2 - FIFO per identity: the `data` events emitted for an identity, to
\* whichever socket was bound at the time, occur in the order in which the
\* relay accepted their envelopes: within a step and from step to step the
\* ordinals of the envelopes emitted for an identity only increase.
C2_FifoStep ==
    \A k \in Identities :
        LET mine == DataFor(emits', k)
        IN  \A i \in 1 .. Len(mine) :
               Ordinal(mine[i].token) >
                  (IF i = 1 THEN lastDelivered[k] ELSE Ordinal(mine[i - 1].token))

C2_FifoPerIdentity == [][C2_FifoStep]_vars

\* the first envelope of an identity went out to socket 1; after socket 1 had
\* gone, two more were queued and have now been emitted to socket 2 on its
\* registration
C2_Witness ==
    /\ lastOp = [op |-> "register", c |-> 2]
    /\ pc[1] = "closed"
    /\ Len(emits) = 2
    /\ emits[1].type = "data" /\ emits[1].to = 2 /\ Ordinal(emits[1].token) = 2
    /\ emits[2].type = "data" /\ emits[2].to = 2 /\ Ordinal(emits[2].token) = 3
    /\ DOMAIN REGISTERED_USERS = {emits[1].for}
    /\ emits[2].for = emits[1].for

\* C3 - Offline queuing: an envelope accepted for an identity whose mailbox
\* has no socket bound is appended to its queue and nothing is emitted; when a
\* socket then registers for that identity it is emitted the whole queue, in
\* queue order, each envelope once, in that step, and the queue is left empty.
C3_OfflineStep ==
    /\ \A c \in Conns, p \in Identities :
          ( /\ hasOwn(REGISTERED_USERS, p)
            /\ REGISTERED_USERS[p].socket = NoSocket
            /\ Data(c, p) )
          => /\ REGISTERED_USERS'[p].queue = Append(REGISTERED_USERS[p].queue, NextEnvelope)
             /\ REGISTERED_USERS'[p].socket = NoSocket
             /\ emits' = << >>
    /\ \A c \in Conns :
          ( /\ hasOwn(REGISTERED_USERS, clientKeyId(c))
            /\ REGISTERED_USERS[clientKeyId(c)].socket = NoSocket
            /\ Register(c, challengeBufToString[challengeBuf[c]]) )
          => /\ emits' = Delivery(c, clientKeyId(c), REGISTERED_USERS[clientKeyId(c)].queue)
             /\ REGISTERED_USERS'[clientKeyId(c)].queue = << >>
             /\ REGISTERED_USERS'[clientKeyId(c)].socket = c

C3_OfflineQueuing == [][C3_OfflineStep]_vars

\* three envelopes were queued for an offline identity and have all been
\* emitted, in order, to the socket that has just registered for it
C3_Witness ==
    /\ lastOp.op = "register"
    /\ Len(emits) = 3
    /\ \A i \in 1 .. 3 :
          /\ emits[i].type = "data"
          /\ emits[i].to = lastOp.c
          /\ Ordinal(emits[i].token) = i
          /\ emits[i].for = clientKeyId(lastOp.c)
    /\ REGISTERED_USERS[clientKeyId(lastOp.c)] = [socket |-> lastOp.c, queue |-> << >>]


\* C4 - Single live binding: a mailbox holds one socket reference; a socket
\* that registers for identity I becomes the one bound socket of I, whichever
\* socket was bound before; the binding moves to a socket only by that
\* socket's own successful register; and every envelope of I is emitted to
\* the socket bound to I, so never to a socket whose binding was replaced.
C4_BindingStep ==
    /\ \A c \in Conns :
          Register(c, challengeBufToString[challengeBuf[c]])
          => /\ Bound(clientKeyId(c))' = c
             /\ \A i \in 1 .. Len(emits') : emits'[i].to = c
    /\ \A k \in Identities :
          /\ Bound(k)' \notin {NoSocket, Bound(k)}
             => /\ lastOp' = [op |-> "register", c |-> Bound(k)']
                /\ solved'[Bound(k)']
          /\ \A i \in 1 .. Len(emits') :
                (emits'[i].type = "data" /\ emits'[i].for = k)
                => (emits'[i].to = Bound(k)' /\ Bound(k)' # NoSocket)

C4_SingleLiveBinding == [][C4_BindingStep]_vars

\* sockets 1 and 2 have both registered for one identity and are both still
\* connected; socket 2 registered last and has just been emitted an envelope
C4_Witness ==
    /\ connected[1] /\ connected[2]
    /\ solved[1] /\ solved[2]
    /\ key[1] = key[2]
    /\ Bound(key[1]) = 2
    /\ lastOp.op = "data"
    /\ Len(emits) = 1
    /\ emits[1].type = "data" /\ emits[1].to = 2 /\ emits[1].for = key[1]

\* the states of section 4.2 a connected socket can send `data` from
Anonymous(c) == connected[c] /\ pc[c] = "ready" /\ ~auth(c)
Challenged(c) == connected[c] /\ HasRegisterHandler(c) /\ ~solved[c]
Authenticated(c) == connected[c] /\ HasRegisterHandler(c) /\ solved[c]

\* C5 - Relay regardless of sender state: a `data` event from an Anonymous,
\* Challenged or Authenticated sender, addressed to an identity whose mailbox
\* has a socket bound, makes the relay emit exactly one `data` event, to that
\* socket, with the token and the payload of the event.
C5_RelayStep ==
    \A c \in Conns, p \in Identities :
        ( /\ Anonymous(c) \/ Challenged(c) \/ Authenticated(c)
          /\ Bound(p) # NoSocket
          /\ Data(c, p) )
        => emits' = << [to |-> Bound(p), type |-> "data",
                        token |-> SessionId(accepted + 1),
                        payload |-> DataObject(accepted + 1), for |-> p] >>

C5_RelayRegardlessOfSender == [][C5_RelayStep]_vars

\* an anonymous socket has sent data to a bound identity, which got it
C5_Witness ==
    /\ lastOp.op = "data"
    /\ Anonymous(lastOp.c)
    /\ Len(emits) = 1
    /\ emits[1].type = "data"
    /\ emits[1].to = Bound(emits[1].for)
    /\ emits[1].to # lastOp.c

\* C6 - Unknown recipient: a `data` event addressed to an identity with no
\* mailbox makes the relay emit exactly one `error` event with code 404 to the
\* sender; no mailbox is created, no queue and no binding changes, and the
\* sender stays connected with its handlers, so that its next `data` event is
\* handled as any other.
C6_UnknownStep ==
    \A c \in Conns, p \in PeerIds :
        ( ~hasOwn(REGISTERED_USERS, p) /\ Data(c, p) )
        => /\ Len(emits') = 1
           /\ emits'[1].to = c
           /\ emits'[1].type = "error"
           /\ emits'[1].code = 404
           /\ emits'[1].peer = p
           /\ REGISTERED_USERS' = REGISTERED_USERS
           /\ connected'[c]
           /\ HasDataHandler(c)'
           /\ UNCHANGED << pc, connected, key, recovered, challengeBuf, accepted >>

C6_UnknownRecipient == [][C6_UnknownStep]_vars

\* a sender has just been answered 404 while a mailbox with a bound socket
\* exists for it to send to next
C6_Witness ==
    /\ lastOp.op = "data"
    /\ Len(emits) = 1
    /\ emits[1].type = "error" /\ emits[1].code = 404 /\ emits[1].to = lastOp.c
    /\ connected[lastOp.c]
    /\ \E k \in DOMAIN REGISTERED_USERS : REGISTERED_USERS[k].socket # NoSocket


\* C7 - Successful registration: on a Challenged socket a `register` event
\* with the base64 text of its nonce makes it Authenticated, creates the
\* mailbox of its identity with an empty queue if there was none, binds that
\* mailbox to this socket, leaves every other mailbox alone and leaves the
\* socket connected.
C7_RegisterStep ==
    \A c \in Conns :
        ( Challenged(c) /\ Register(c, challengeBufToString[challengeBuf[c]]) )
        => LET k == clientKeyId(c)
           IN  /\ Authenticated(c)'
               /\ hasOwn(REGISTERED_USERS', k)
               /\ REGISTERED_USERS'[k].socket = c
               /\ ~hasOwn(REGISTERED_USERS, k)
                  => (REGISTERED_USERS'[k].queue = << >> /\ emits' = << >>)
               /\ DOMAIN REGISTERED_USERS' = DOMAIN REGISTERED_USERS \cup {k}
               /\ \A o \in DOMAIN REGISTERED_USERS \ {k} :
                     REGISTERED_USERS'[o] = REGISTERED_USERS[o]
               /\ connected'[c]
               /\ UNCHANGED << pc, key, challengeBuf >>

C7_SuccessfulRegistration == [][C7_RegisterStep]_vars

\* socket 1 has just registered the first mailbox of the relay
C7_Witness ==
    /\ lastOp = [op |-> "register", c |-> 1]
    /\ pc[2] = "new"
    /\ Authenticated(1)
    /\ REGISTERED_USERS = (key[1] :> [socket |-> 1, queue |-> << >>])

\* C8 - Failed challenge: on a Challenged socket a `register` event with any
\* other value makes the relay disconnect that socket; the step creates no
\* mailbox, binds no mailbox to it and emits nothing; and a closed socket
\* stays closed: no event of it, `register` included, is handled afterwards.
C8_FailedStep ==
    /\ \A c \in Conns, v \in Solutions :
          ( Challenged(c) /\ v # challengeBufToString[challengeBuf[c]] /\ Register(c, v) )
          => /\ ~connected'[c]
             /\ pc'[c] = "closed"
             /\ DOMAIN REGISTERED_USERS' = DOMAIN REGISTERED_USERS
             /\ \A k \in DOMAIN REGISTERED_USERS' :
                   /\ REGISTERED_USERS'[k].socket # c
                   /\ REGISTERED_USERS'[k].queue = REGISTERED_USERS[k].queue
             /\ emits' = << >>
    /\ \A c \in Conns :
          pc[c] = "closed"
          => /\ pc'[c] = "closed"
             /\ ~connected'[c]
             /\ \A v \in Solutions : ~Register(c, v) /\ ~RegisterUnhandled(c, v)
             /\ \A p \in PeerIds : ~Data(c, p)
             /\ ~DataUnhandled(c)

C8_FailedChallenge == [][C8_FailedStep]_vars

\* a socket has just been closed by its own wrong `register`
C8_Witness ==
    /\ lastOp.op = "register"
    /\ pc[lastOp.c] = "closed"
    /\ ~connected[lastOp.c]

\* C9 - Invalid credential: a connection presenting a key that cannot be
\* imported is rejected at connect: it is never connected, gets no challenge,
\* the registry is unchanged, and a rejected connection stays rejected with no
\* event of it (`data`, `register`) ever handled.
C9_RejectStep ==
    /\ \A c \in Conns, k \in Credentials :
          ( k # NoKey /\ importKey(k) = InvalidKey /\ Connect(c, k) )
          => /\ pc'[c] = "rejected"
             /\ ~connected'[c]
             /\ challengeBuf'[c] = NoNonce
             /\ emits' = << >>
             /\ REGISTERED_USERS' = REGISTERED_USERS
    /\ \A c \in Conns :
          pc[c] = "rejected"
          => /\ pc'[c] = "rejected"
             /\ ~connected'[c]
             /\ challengeBuf'[c] = NoNonce
             /\ \A v \in Solutions : ~Register(c, v) /\ ~RegisterUnhandled(c, v)
             /\ \A p \in PeerIds : ~Data(c, p)
             /\ ~DataUnhandled(c)
             /\ \A iv \in IVs : ~IssueChallenge(c, iv, RandomChallenge(c))

C9_InvalidCredential ==
    /\ [](\A c \in Conns : pc[c] = "rejected" <=>
             (key[c] # NoKey /\ importKey(key[c]) = InvalidKey))
    /\ [][C9_RejectStep]_vars

\* a connection was rejected and the relay has gone on serving another one
C9_Witness ==
    /\ pc[1] = "rejected"
    /\ key[1] = "incorrect_public_key"
    /\ lastOp.c = 2
    /\ Bound(key[2]) = 2

\* C10 - Anonymous connections: a connection that presents no key is
\* accepted; it is issued no challenge, has no register handler (a `register`
\* event from it changes nothing), is never bound to a mailbox and is never
\* emitted a `data` event, while its `data` events are handled by the relay.
C10_AnonymousState ==
    \A c \in Conns :
        Anonymous(c)
        => /\ challengeBuf[c] = NoNonce
           /\ ~HasRegisterHandler(c)
           /\ HasDataHandler(c)
           /\ \A k \in DOMAIN REGISTERED_USERS : REGISTERED_USERS[k].socket # c
           /\ ~hasOwn(REGISTERED_USERS, clientKeyId(c))
           /\ \A i \in 1 .. Len(emits) :
                 emits[i].to = c => emits[i].type = "error"
           /\ accepted < MaxEnvelopes => \A p \in PeerIds : ENABLED Data(c, p)

C10_AnonymousStep ==
    \A c \in Conns :
        /\ Connect(c, NoKey) => (Anonymous(c)' /\ emits' = << >>)
        /\ \A v \in Solutions :
              /\ Anonymous(c) => ~Register(c, v)
              /\ (Anonymous(c) /\ RegisterUnhandled(c, v))
                 => ( /\ emits' = << >>
                      /\ UNCHANGED << pc, connected, key, recovered, challengeBuf,
                                      REGISTERED_USERS, accepted, solved, lastDelivered >> )
        /\ (Anonymous(c) /\ ~Disconnect(c)) => Anonymous(c)'
        /\ \A iv \in IVs : Anonymous(c) => ~IssueChallenge(c, iv, RandomChallenge(c))

C10_AnonymousConnections == []C10_AnonymousState /\ [][C10_AnonymousStep]_vars

\* an anonymous socket has sent `register` to no effect while a mailbox is
\* there that it could have been bound to
C10_Witness ==
    /\ lastOp.op = "registerUnhandled"
    /\ Anonymous(lastOp.c)
    /\ REGISTERED_USERS # << >>

\* C11 - Disconnect unbinds but keeps the mailbox: when the socket bound to
\* the mailbox of identity I disconnects (by the peer, or by the relay on a
\* failed challenge), the mailbox's socket reference is cleared, the mailbox
\* and its queue stay as they are, and no other mailbox changes.
C11_DisconnectStep ==
    \A c \in Conns, k \in DOMAIN REGISTERED_USERS :
        ( Bound(k) = c /\ connected[c] /\ ~connected'[c] )
        => /\ DOMAIN REGISTERED_USERS' = DOMAIN REGISTERED_USERS
           /\ REGISTERED_USERS'[k].socket = NoSocket
           /\ REGISTERED_USERS'[k].queue = REGISTERED_USERS[k].queue
           /\ \A o \in DOMAIN REGISTERED_USERS \ {k} :
                 REGISTERED_USERS'[o] = REGISTERED_USERS[o]
           /\ emits' = << >>

C11_DisconnectUnbinds == [][C11_DisconnectStep]_vars

\* both identities have a mailbox; socket 1, the only socket that can have
\* been bound to the one, has just disconnected and left it unbound, while
\* the other is still bound to socket 2
C11_Witness ==
    /\ lastOp = [op |-> "disconnect", c |-> 1]
    /\ DOMAIN REGISTERED_USERS = Identities
    /\ \E k \in Identities :
          /\ REGISTERED_USERS[k].socket = NoSocket
          /\ \A o \in Identities \ {k} : REGISTERED_USERS[o].socket = 2

\* C12 - Removal at delivery attempt only: an envelope leaves a queue only in
\* a step that emits it to the socket bound to that mailbox; an emitted
\* envelope is out of the queue at once, was not emitted before, and no queue
\* ever holds an envelope that has been emitted, whatever happens to the
\* socket afterwards.
C12_RemovalStep ==
    \A k \in DOMAIN REGISTERED_USERS :
        LET old == REGISTERED_USERS[k].queue
            new == REGISTERED_USERS'[k].queue
            out == DataFor(emits', k)
        IN  /\ \A i \in 1 .. Len(old) :
                  (\A j \in 1 .. Len(new) : new[j] # old[i])
                  => /\ Bound(k)' # NoSocket
                     /\ \E e \in 1 .. Len(out) : out[e] = DataEvent(Bound(k)', k, old[i])
            /\ \A e \in 1 .. Len(out) :
                  /\ Ordinal(out[e].token) > lastDelivered[k]
                  /\ \A j \in 1 .. Len(new) : new[j] # << out[e].token, out[e].payload >>
                  /\ \A f \in 1 .. Len(out) : out[f] = out[e] => f = e
            /\ \A j \in 1 .. Len(new) : Ordinal(new[j][1]) > lastDelivered'[k]

C12_RemovalAtDelivery == [][C12_RemovalStep]_vars

\* every envelope the bounds allow has been accepted for one identity and
\* emitted, every socket has gone, and the mailbox is left unbound and empty
C12_Witness ==
    /\ accepted = MaxEnvelopes
    /\ \A c \in Conns : pc[c] = "closed"
    /\ \E k \in Identities :
          /\ DOMAIN REGISTERED_USERS = {k}
          /\ lastDelivered[k] = MaxEnvelopes
          /\ REGISTERED_USERS[k] = [socket |-> NoSocket, queue |-> << >>]

\* C13 - Mailboxes are never deleted: a mailbox that exists exists after every
\* step; a mailbox comes into being only by a successful `register` of a
\* socket of its identity; and a `data` event addressed to an identity that
\* has a mailbox is never answered with an error: its envelope is queued or
\* emitted.
C13_PersistStep ==
    /\ DOMAIN REGISTERED_USERS \subseteq DOMAIN REGISTERED_USERS'
    /\ \A k \in DOMAIN REGISTERED_USERS' \ DOMAIN REGISTERED_USERS :
          /\ REGISTERED_USERS'[k].socket # NoSocket
          /\ lastOp' = [op |-> "register", c |-> REGISTERED_USERS'[k].socket]
          /\ clientKeyId(REGISTERED_USERS'[k].socket) = k
    /\ \A c \in Conns, p \in DOMAIN REGISTERED_USERS :
          Data(c, p)
          => /\ \A i \in 1 .. Len(emits') : emits'[i].type # "error"
             /\ IF REGISTERED_USERS[p].socket = NoSocket
                THEN /\ emits' = << >>
                     /\ Len(REGISTERED_USERS'[p].queue) = Len(REGISTERED_USERS[p].queue) + 1
                     /\ REGISTERED_USERS'[p].queue[Len(REGISTERED_USERS'[p].queue)] = NextEnvelope
                ELSE Len(DataFor(emits', p)) = 1

C13_MailboxesNeverDeleted == [][C13_PersistStep]_vars

\* socket 1 registered an identity and has gone; socket 2 has just sent data
\* to that identity, and the envelope sits in the queue of its mailbox
C13_Witness ==
    /\ pc[1] = "closed"
    /\ lastOp = [op |-> "data", c |-> 2]
    /\ emits = << >>
    /\ accepted = 1
    /\ \E k \in Identities :
          /\ DOMAIN REGISTERED_USERS = {k}
          /\ REGISTERED_USERS[k].socket = NoSocket
          /\ Len(REGISTERED_USERS[k].queue) = 1
          /\ ~solved[2]

\* C14 - Reconnection shortcut: when the connection handler of a credentialed
\* socket finds socket.recovered set, it emits no `challenge`, and the mailbox
\* of the socket's identity is bound to this socket and its queue is emitted
\* to it.
C14_ResumeStep ==
    \A c \in Conns :
        ( AfterImport(c, TRUE) /\ hasOwn(REGISTERED_USERS, clientKeyId(c)) )
        => LET k == clientKeyId(c)
           IN  /\ \A i \in 1 .. Len(emits') : emits'[i].type # "challenge"
               /\ Bound(k)' = c
               /\ emits' = Delivery(c, k, REGISTERED_USERS[k].queue)
               /\ REGISTERED_USERS'[k].queue = << >>

C15_ReauthStep ==
    \A c \in Conns :
        LET k == clientKeyId(c)
        IN  ( hasOwn(REGISTERED_USERS, k) /\ Bound(k) = NoSocket )
            => /\ AfterImport(c, FALSE) => pc'[c] = "await_derive"
               /\ \A iv \in IVs :
                     IssueChallenge(c, iv, RandomChallenge(c))
                     => /\ Len(emits') = 1
                        /\ emits'[1].type = "challenge" /\ emits'[1].to = c
                        /\ Challenged(c)'
               /\ ( Challenged(c) /\ Register(c, challengeBufToString[challengeBuf[c]]) )
                  => /\ Authenticated(c)'
                     /\ DOMAIN REGISTERED_USERS' = DOMAIN REGISTERED_USERS
                     /\ Bound(k)' = c
                     /\ emits' = Delivery(c, k, REGISTERED_USERS[k].queue)
                     /\ REGISTERED_USERS'[k].queue = << >>

C16_ChallengeState ==
    \A c \in Conns :
        /\ ( connected[c] /\ pc[c] \in {"ready", "threw"} /\ auth(c) /\ ~recovered[c] )
           => challengeBuf[c] # NoNonce
        /\ ( ~auth(c) \/ recovered[c] \/ pc[c] = "rejected" )
           => challengeBuf[c] = NoNonce

C16_ChallengeStep ==
    \A c \in Conns :
        LET sent == SelectSeq(emits', LAMBDA e : e.type = "challenge" /\ e.to = c)
        IN  /\ Len(sent) <= 1
            /\ Len(sent) = 1 => (challengeBuf[c] = NoNonce /\ challengeBuf'[c] # NoNonce)
            /\ \A v \in Solutions :
                  ( Register(c, v) /\ connected'[c] ) => challengeBuf[c] # NoNonce

C16_ChallengeOnce == []C16_ChallengeState /\ [][C16_ChallengeStep]_vars

\* C17 - Crypto failure rejects the handshake: when key derivation or the
\* encryption of the challenge fails for a connected credentialed socket, the
\* relay disconnects the socket in that step; the socket has been and is
\* emitted no `challenge`, no `register` of it is ever handled, and its
\* handshake is not taken up again.
C17_FailureStep ==
    \A c \in Conns :
        /\ DeriveFails(c)
           => /\ ~connected'[c]
              /\ emits' = << >>
              /\ challengeBuf'[c] = NoNonce
              /\ REGISTERED_USERS' = REGISTERED_USERS
        /\ pc[c] = "threw"
           => /\ pc'[c] \in {"threw", "closed"}
              /\ challengeBuf'[c] = NoNonce
              /\ \A v \in Solutions : ~Register(c, v)
              /\ \A iv \in IVs : ~IssueChallenge(c, iv, RandomChallenge(c))

C17_CryptoFailure == [][C17_FailureStep]_vars

\* The acknowledgement callback socket.io appends to the arguments of an event
\* of socket c has been invoked among the calls of out.  The `register`
\* handler declares (solvedChallengeAsString) and the `data` handler
\* (peerId, sessionId, data): neither receives the callback, and no call of
\* the relay is of this type.
Acked(c, out) == \E i \in 1 .. Len(out) : out[i].type = "ack" /\ out[i].to = c

\* C18 - Register acknowledgment: the acknowledgement callback of a `register`
\* event is invoked when the submitted solution is correct and is not invoked
\* when it is incorrect.
C18_RegisterAckStep ==
    \A c \in Conns, v \in Solutions :
        Register(c, v) => ( Acked(c, emits') <=> ChallengeSolved(c, v) )

C18_RegisterAcknowledgment == [][C18_RegisterAckStep]_vars

\* C19 - Data acknowledgment: the acknowledgement callback of a `data` event
\* is invoked when the envelope is emitted to the socket bound to the
\* recipient's mailbox, only then, and never when the recipient has no
\* mailbox.
C19_DataAckStep ==
    \A c \in Conns, p \in PeerIds :
        Data(c, p)
        => /\ Bound(p) # NoSocket => Acked(c, emits')
           /\ Acked(c, emits')
              => \E i \in 1 .. Len(emits') :
                    emits'[i] = DataEvent(Bound(p), p, NextEnvelope)
           /\ ~hasOwn(REGISTERED_USERS, p) => ~Acked(c, emits')

C19_DataAcknowledgment == [][C19_DataAckStep]_vars

\* C20 - register is an idempotent upsert: on any registry the relay reaches,
\* registerMailBox(I, C) creates the mailbox of I with an empty queue bound
\* to C when there is none, and otherwise sets its socket to C and emits its
\* queue to C, leaving every other mailbox as it is; applied once more to the
\* result it changes nothing and emits nothing.  A `register` step is one
\* such application, and a second one right after it is without effect.
C20_UpsertState ==
    \A k \in Identities, c \in Conns :
        LET r1 == registerMailBox(REGISTERED_USERS, k, c)
            r2 == registerMailBox(r1.users, k, c)
        IN  /\ DOMAIN r1.users = DOMAIN REGISTERED_USERS \cup {k}
            /\ r1.users[k] = [socket |-> c, queue |-> << >>]
            /\ \A o \in DOMAIN REGISTERED_USERS \ {k} : r1.users[o] = REGISTERED_USERS[o]
            /\ r1.emits = IF hasOwn(REGISTERED_USERS, k)
                          THEN Delivery(c, k, REGISTERED_USERS[k].queue)
                          ELSE << >>
            /\ r2.users = r1.users
            /\ r2.emits = << >>

C20_UpsertStep ==
    \A c \in Conns :
        Register(c, challengeBufToString[challengeBuf[c]])
        => /\ REGISTERED_USERS' = registerMailBox(REGISTERED_USERS, clientKeyId(c), c).users
           /\ emits' = registerMailBox(REGISTERED_USERS, clientKeyId(c), c).emits
           /\ Bound(clientKeyId(c)) = c => (UNCHANGED REGISTERED_USERS /\ emits' = << >>)

C20_IdempotentUpsert == []C20_UpsertState /\ [][C20_UpsertStep]_vars

\* a socket has just registered onto a mailbox that held two envelopes and
\* has been emitted both; the other identity has no mailbox yet
C20_Witness ==
    /\ lastOp.op = "register"
    /\ Len(emits) = 2
    /\ \E k \in Identities :
          /\ DOMAIN REGISTERED_USERS = {k}
          /\ REGISTERED_USERS[k] = [socket |-> lastOp.c, queue |-> << >>]
          /\ DataFor(emits, k) = emits

\* C21 - Same-identity race is last-writer-wins: whatever the order in which
\* the handlers of two sockets of one identity (and `data` events for that
\* identity) run, a successful `register` leaves the mailbox bound to the
\* socket that sent it, the binding then changes only by another `register`
\* or by a socket of that identity closing, and the envelopes of the identity
\* are emitted in acceptance order, each to the one socket bound in that
\* step and none that was emitted before.
C21_RaceStep ==
    \A k \in Identities :
        /\ \A c \in Conns :
              ( clientKeyId(c) = k /\ Register(c, challengeBufToString[challengeBuf[c]]) )
              => Bound(k)' = c
        /\ Bound(k)' # Bound(k)
           => IF Bound(k)' # NoSocket
              THEN lastOp' = [op |-> "register", c |-> Bound(k)']
              ELSE \E c \in Conns : clientKeyId(c) = k /\ connected[c] /\ ~connected'[c]
        /\ LET mine == DataFor(emits', k)
           IN  \A i \in 1 .. Len(mine) :
                  /\ mine[i].to = Bound(k)'
                  /\ Ordinal(mine[i].token) >
                        (IF i = 1 THEN lastDelivered[k] ELSE Ordinal(mine[i - 1].token))

C21_LastWriterWins == [][C21_RaceStep]_vars

\* sockets 1 and 2 have both authenticated for one identity and are both
\* connected; the register of socket 1 ran last and socket 1 holds the
\* binding
C21_Witness ==
    /\ connected[1] /\ connected[2]
    /\ solved[1] /\ solved[2]
    /\ key[1] = key[2]
    /\ lastOp = [op |-> "register", c |-> 1]
    /\ Bound(key[1]) = 1

\* the base64 texts of the nonces
NonceTexts == {challengeBufToString[n] : n \in Nonces}

\* C22 - The challenge plaintext never leaves the relay unencrypted: every
\* emitted event is a `challenge`, a `data` or an `error`; a `challenge`
\* carries the text of the iv, which is the text of no nonce, and the
\* ciphertext of the socket's nonce under the key derived from that socket's
\* public key, and nothing else; a `data` carries the token and payload its
\* sender gave; an `error` carries the code and the peer id.
C22_PlaintextNeverSent ==
    \A i \in 1 .. Len(emits) :
        LET e == emits[i]
        IN  /\ e.type \in {"challenge", "data", "error"}
            /\ e.type = "challenge"
               => /\ DOMAIN e = {"to", "type", "iv", "challenge"}
                  /\ e.iv \notin NonceTexts
                  /\ \E iv \in IVs :
                        /\ e.iv = ivBufToString[iv]
                        /\ e.challenge = encrypt(deriveKey(importKey(key[e.to])), iv,
                                                 challengeBuf[e.to])
                  /\ challengeBuf[e.to] # NoNonce
            /\ e.type = "data"
               => /\ DOMAIN e = {"to", "type", "token", "payload", "for"}
                  /\ \E n \in 1 .. accepted :
                        e.token = SessionId(n) /\ e.payload = DataObject(n)
            /\ e.type = "error"
               => /\ DOMAIN e = {"to", "type", "code", "peer"}
                  /\ e.code = 404
                  /\ e.peer \in PeerIds

\* socket 2 has just been emitted its challenge while socket 1 holds a nonce
\* of its own
C22_Witness ==
    /\ lastOp = [op |-> "challenge", c |-> 2]
    /\ Len(emits) = 1
    /\ emits[1].type = "challenge" /\ emits[1].to = 2
    /\ emits[1].challenge.pt = challengeBuf[2]
    /\ challengeBuf[1] # NoNonce
    /\ challengeBuf[1] # challengeBuf[2]

\* C23 - Challenge round-trip: for every `challenge` the relay emits, the
\* holder of the key pair whose public key the socket presented decrypts it
\* and sends a solution that the comparison of the register handler accepts;
\* the holder of any other key pair cannot decrypt it; and any other value
\* sent in its place is one the comparison rejects.
C23_RoundTrip ==
    \A i \in 1 .. Len(emits) :
        emits[i].type = "challenge"
        => LET c == emits[i].to
               mine == solveChallenge(importKey(key[c]), emits[i])
           IN  /\ mine.sent
               /\ ChallengeSolved(c, mine.solvedChallenge)
               /\ \A K \in PublicKeys \ {importKey(key[c])} :
                     ~solveChallenge(K, emits[i]).sent
               /\ \A v \in Solutions \ {mine.solvedChallenge} : ~ChallengeSolved(c, v)

\* socket 1, of public key B, has just been emitted a challenge that the
\* holder of key pair B solves and the holder of key pair A does not
C23_Witness ==
    /\ lastOp = [op |-> "challenge", c |-> 1]
    /\ importKey(key[1]) = "B"
    /\ Len(emits) = 1
    /\ emits[1].type = "challenge"
    /\ solveChallenge("B", emits[1]) = [sent |-> TRUE, solvedChallenge |-> toBase64(challengeBuf[1])]
    /\ ~solveChallenge("A", emits[1]).sent
    /\ fromBase64(emits[1].iv) = RandomIv

\* C24 - An unauthenticated connection cannot disturb a mailbox: the step in
\* which a credentialed, non-resumed socket that has never sent a correct
\* solution is closed, by a failed challenge or by its disconnect, leaves
\* the socket reference and the queue of every mailbox, that of its own
\* identity included, as they were.
C24_UndisturbedStep ==
    \A c \in Conns :
        ( auth(c) /\ ~recovered[c] /\ ~solved[c] /\ connected[c] /\ ~connected'[c] )
        => REGISTERED_USERS' = REGISTERED_USERS

C24_UnauthenticatedCannotDisturb == [][C24_UndisturbedStep]_vars

\* C25 - A superseded connection's disconnect does not unbind its successor:
\* when a socket that had registered for identity I, and whose binding
\* another socket of I has since taken by its own `register`, closes while
\* that other socket stays connected, the mailbox of I stays bound to the
\* other socket.
C25_SupersededStep ==
    \A k \in Identities, c \in Conns, d \in Conns :
        ( /\ c # d
          /\ Bound(k) = c
          /\ clientKeyId(d) = k /\ solved[d]
          /\ connected[d] /\ ~connected'[d]
          /\ connected'[c] )
        => Bound(k)' = c

C25_SupersededDisconnect == [][C25_SupersededStep]_vars

\* C26 - Dispatcher totality under interleaving: every `data` event of a
\* connected socket, whenever it arrives, is answered either by the enqueue
\* of its envelope for a recipient that has a mailbox or by one 404 `error`
\* to the sender for one that has none; no `data` event goes unhandled.
C26_TotalityStep ==
    \A c \in Conns :
        /\ \A p \in PeerIds :
              Data(c, p)
              => IF hasOwn(REGISTERED_USERS, p)
                 THEN /\ accepted' = accepted + 1
                      /\ \A i \in 1 .. Len(emits') : emits'[i].type # "error"
                 ELSE /\ accepted' = accepted
                      /\ Len(emits') = 1
                      /\ emits'[1].type = "error" /\ emits'[1].to = c
        /\ ~DataUnhandled(c)

C26_DispatcherTotality == [][C26_TotalityStep]_vars


\* C27 - Bound implies drained: between handler executions a mailbox that has
\* a socket bound has an empty queue; a mailbox whose queue is not empty has
\* no socket bound.
C27_BoundImpliesDrained ==
    \A k \in DOMAIN REGISTERED_USERS :
        /\ REGISTERED_USERS[k].socket # NoSocket => Len(REGISTERED_USERS[k].queue) = 0
        /\ Len(REGISTERED_USERS[k].queue) > 0 => REGISTERED_USERS[k].socket = NoSocket

\* a register has just bound a socket to a mailbox that held two or more
\* envelopes, and the mailbox is drained
C27_Witness ==
    \E k \in Identities :
        /\ lastOp.op = "register"
        /\ Bound(k) = lastOp.c
        /\ connected[Bound(k)]
        /\ Len(DataFor(emits, k)) >= 2
        /\ Len(REGISTERED_USERS[k].queue) = 0


\* the queue of the mailbox of keyId, empty when there is no mailbox
QueueOf(users, keyId) == IF hasOwn(users, keyId) THEN users[keyId].queue ELSE << >>

\* the envelopes the `data` emits of out hand over for keyId, in order
EnvelopesFor(out, keyId) ==
    [i \in 1 .. Len(DataFor(out, keyId)) |->
        << DataFor(out, keyId)[i].token, DataFor(out, keyId)[i].payload >>]

\* every queued envelope is an accepted one, is not yet emitted, and is held
\* once, in one queue
C28_QueueState ==
    /\ \A k \in DOMAIN REGISTERED_USERS :
          LET q == REGISTERED_USERS[k].queue
          IN  /\ \A i \in 1 .. Len(q) :
                    /\ Ordinal(q[i][1]) \in 1 .. accepted
                    /\ Ordinal(q[i][1]) > lastDelivered[k]
                    /\ q[i][2] = DataObject(Ordinal(q[i][1]))
              /\ \A i \in 1 .. Len(q), j \in 1 .. Len(q) :
                    i < j => Ordinal(q[i][1]) < Ordinal(q[j][1])
    /\ \A k1 \in DOMAIN REGISTERED_USERS, k2 \in DOMAIN REGISTERED_USERS :
          k1 # k2 =>
              \A i \in 1 .. Len(REGISTERED_USERS[k1].queue),
                 j \in 1 .. Len(REGISTERED_USERS[k2].queue) :
                  REGISTERED_USERS[k1].queue[i][1] # REGISTERED_USERS[k2].queue[j][1]

\* C28 - Envelope conservation: in every step, for every identity, the
\* envelopes emitted for it followed by its queue afterwards are exactly its
\* queue before followed by the envelope the step accepted for it, if any;
\* every emit goes to the socket bound to the mailbox, carries an envelope not
\* emitted before, and nothing is emitted for a key that has no mailbox.  So
\* each accepted envelope is in its recipient's queue once or was emitted
\* once, and none is duplicated, moved to another queue or dropped.
C28_ConservationStep ==
    /\ \A k \in Identities :
          LET taken == IF /\ accepted' = accepted + 1
                          /\ \E c \in Conns : Data(c, k)
                       THEN << NextEnvelope >>
                       ELSE << >>
          IN  /\ EnvelopesFor(emits', k) \o QueueOf(REGISTERED_USERS', k)
                    = QueueOf(REGISTERED_USERS, k) \o taken
              /\ \A i \in 1 .. Len(DataFor(emits', k)) :
                    /\ DataFor(emits', k)[i].to = Bound(k)'
                    /\ Bound(k)' # NoSocket
                    /\ Ordinal(DataFor(emits', k)[i].token) > lastDelivered[k]
    /\ \A i \in 1 .. Len(emits') :
          emits'[i].type = "data" => emits'[i].for \in DOMAIN REGISTERED_USERS'
    /\ accepted' # accepted
       => \E c \in Conns, k \in Identities : Data(c, k) /\ hasOwn(REGISTERED_USERS, k)
    /\ C28_QueueState'

C28_EnvelopeConservation == [][C28_ConservationStep]_vars

\* after a first envelope, two more were accepted for an identity while its
\* mailbox was unbound and have now been handed, in order and once, to the
\* socket that registered for it
C28_Witness ==
    \E k \in Identities :
        /\ lastOp.op = "register"
        /\ Bound(k) = lastOp.c
        /\ accepted = 3
        /\ EnvelopesFor(emits, k) = << << SessionId(2), DataObject(2) >>,
                                      << SessionId(3), DataObject(3) >> >>
        /\ lastDelivered[k] = 3
        /\ Len(QueueOf(REGISTERED_USERS, k)) = 0


\* C29 - Nonces are per connection: the sockets that hold a nonce hold
\* different ones, and a `register` is accepted only for the text of the
\* nonce of the socket it arrives on; the solution of any other socket's
\* nonce, a socket of the same identity included, is rejected: the socket is
\* disconnected and is not bound to the mailbox.
C29_NonceState ==
    \A c \in Conns, d \in Conns :
        ( c # d /\ challengeBuf[c] # NoNonce /\ challengeBuf[d] # NoNonce )
        => /\ challengeBuf[c] # challengeBuf[d]
           /\ challengeBufToString[challengeBuf[c]] # challengeBufToString[challengeBuf[d]]

C29_NonceStep ==
    /\ C29_NonceState'
    /\ \A c \in Conns, v \in Solutions :
          ( lastOp'.op = "register" /\ Register(c, v) )
          => IF v = challengeBufToString[challengeBuf[c]]
             THEN connected'[c] /\ Bound(clientKeyId(c))' = c
             ELSE /\ ~connected'[c]
                  /\ \A k \in Identities : Bound(k)' # c
                  /\ emits' = << >>
    /\ \A c \in Conns, d \in Conns :
          ( /\ c # d
            /\ challengeBuf[d] # NoNonce
            /\ lastOp'.op = "register"
            /\ Register(c, challengeBufToString[challengeBuf[d]]) )
          => /\ ~connected'[c]
             /\ \A k \in Identities : Bound(k)' # c

C29_NoncesPerConnection == [][C29_NonceStep]_vars

\* a socket has just been disconnected by its `register` while another socket
\* holds a nonce and stays connected
C29_Witness ==
    \E c \in Conns, d \in Conns :
        /\ c # d
        /\ lastOp = [op |-> "register", c |-> c]
        /\ pc[c] = "closed" /\ ~connected[c]
        /\ connected[d] /\ challengeBuf[d] # NoNonce
        /\ \A k \in Identities : Bound(k) # c


\* C30 - The nonce is not consumed by a successful register: on a socket
\* that has registered and is still connected, a further `register` with the
\* same correct solution is accepted again: the socket stays connected, the
\* mailbox of its identity is bound to it, whichever socket held the binding
\* before, and the queue of the mailbox is emitted to it in order.
C30_RepeatStep ==
    \A c \in Conns :
        ( Authenticated(c) /\ Register(c, challengeBufToString[challengeBuf[c]]) )
        => /\ connected'[c] /\ solved'[c]
           /\ challengeBuf'[c] = challengeBuf[c]
           /\ Bound(clientKeyId(c))' = c
           /\ emits' = Delivery(c, clientKeyId(c), QueueOf(REGISTERED_USERS, clientKeyId(c)))
           /\ Len(QueueOf(REGISTERED_USERS', clientKeyId(c))) = 0

C30_NonceNotConsumed == [][C30_RepeatStep]_vars

\* socket 1 has registered a second time and taken the binding back: the
\* other socket never connected, an envelope was delivered to socket 1 by an
\* earlier step (so its mailbox existed before), and the last step is a
\* `register` of socket 1 that left it connected and bound
C30_Witness ==
    /\ lastOp = [op |-> "register", c |-> 1]
    /\ \A d \in Conns \ {1} : pc[d] = "new"
    /\ connected[1] /\ solved[1]
    /\ Bound(clientKeyId(1)) = 1
    /\ accepted = 1
    /\ lastDelivered[clientKeyId(1)] = 1
    /\ emits = << >>


\* the step changes no mailbox other than that of keyId
OnlyChanged(keyId) ==
    /\ DOMAIN REGISTERED_USERS' \subseteq DOMAIN REGISTERED_USERS \cup {keyId}
    /\ \A j \in DOMAIN REGISTERED_USERS \ {keyId} :
          /\ j \in DOMAIN REGISTERED_USERS'
          /\ REGISTERED_USERS'[j] = REGISTERED_USERS[j]

\* C31 - Registry frame: REGISTERED_USERS changes only in a successful
\* register, in the enqueue/flush of a `data` event for an existing mailbox,
\* and in the unbind of a disconnect, and each of these changes the mailbox
\* of one identity only (the socket's own, or the recipient's); the opening
\* of a connection, the steps of the connection handler up to and including
\* the challenge, an unhandled event, a `data` event for an unknown
\* recipient, and every event of an anonymous socket other than a `data`
\* event for a registered recipient leave REGISTERED_USERS as it is.
C31_FrameStep ==
    /\ REGISTERED_USERS' # REGISTERED_USERS
       => \E c \in Conns :
             /\ lastOp'.c = c
             /\ \/ /\ lastOp'.op = "register"
                   /\ connected'[c]
                   /\ Register(c, challengeBufToString[challengeBuf[c]])
                   /\ OnlyChanged(clientKeyId(c))
                \/ /\ lastOp'.op = "data"
                   /\ \E p \in Identities :
                         /\ hasOwn(REGISTERED_USERS, p)
                         /\ Data(c, p)
                         /\ OnlyChanged(p)
                \/ /\ lastOp'.op \in {"disconnect", "register"}
                   /\ connected[c] /\ ~connected'[c]
                   /\ REGISTERED_USERS' = onDisconnect(REGISTERED_USERS, clientKeyId(c))
                   /\ OnlyChanged(clientKeyId(c))
    /\ lastOp'.op \in {"connect", "afterImport", "challenge", "deriveFails",
                       "dataUnhandled", "registerUnhandled"}
       => REGISTERED_USERS' = REGISTERED_USERS
    /\ \A c \in Conns, p \in PeerIds :
          ( lastOp'.op = "data" /\ ~hasOwn(REGISTERED_USERS, p) /\ Data(c, p) )
          => REGISTERED_USERS' = REGISTERED_USERS
    /\ \A c \in Conns :
          ( /\ connected[c] /\ ~auth(c)
            /\ lastOp'.c = c
            /\ ~ ( lastOp'.op = "data"
                   /\ \E p \in Identities : hasOwn(REGISTERED_USERS, p) /\ Data(c, p) ) )
          => REGISTERED_USERS' = REGISTERED_USERS

C31_RegistryFrame == [][C31_FrameStep]_vars

\* two mailboxes exist; the socket of one has just disconnected and its
\* mailbox is unbound, the other is still bound to its connected socket
C31_Witness ==
    \E k1 \in Identities, k2 \in Identities :
        /\ k1 # k2
        /\ hasOwn(REGISTERED_USERS, k1) /\ hasOwn(REGISTERED_USERS, k2)
        /\ lastOp.op = "disconnect"
        /\ Bound(k1) = NoSocket
        /\ Bound(k2) # NoSocket /\ Bound(k2) # lastOp.c
        /\ connected[Bound(k2)]


\* C32 - No handshake timeout: a socket that has been sent its challenge and
\* has not answered stays as it is, with the same nonce and without a second
\* challenge, through every step, except a step that handles a `register` of
\* that socket or its disconnect; no step of the relay or of another socket
\* evicts, disconnects or re-challenges it.
C32_WaitStep ==
    \A c \in Conns :
        Challenged(c)
        => \/ /\ Challenged(c)'
              /\ challengeBuf'[c] = challengeBuf[c]
              /\ key'[c] = key[c]
              /\ \A i \in 1 .. Len(emits') :
                    ~ (emits'[i].type = "challenge" /\ emits'[i].to = c)
           \/ /\ lastOp' = [op |-> "register", c |-> c]
              /\ \E v \in Solutions : Register(c, v)
           \/ /\ lastOp' = [op |-> "disconnect", c |-> c]
              /\ Disconnect(c)

C32_NoHandshakeTimeout == [][C32_WaitStep]_vars

\* socket 1 is still waiting with its challenge unanswered after socket 2
\* connected, registered and sent as many envelopes as the bound allows
C32_Witness ==
    /\ Challenged(1)
    /\ challengeBuf[1] = RandomChallenge(1)
    /\ Authenticated(2)
    /\ accepted = MaxEnvelopes
    /\ lastOp = [op |-> "data", c |-> 2]


\* C33 - last4 returns the last four characters of its argument after every
\* '=' is removed (all of what is left when that is fewer than four
\* characters, the empty text when nothing is left), for every text; the 404
\* error message shows this short id for the peer id it was sent for.
C33_Last4 ==
    \A i \in 1 .. Len(emits) :
        emits[i].type = "error"
        => LET trimmed == replaceAll(emits[i].peer, "=")
               first == IF Len(trimmed) > 4 THEN Len(trimmed) - 3 ELSE 1
           IN  emits[i].message[2] = SubSeq(trimmed, first, Len(trimmed))


\* C34 - The enqueue precondition always holds: in every `data` step
\* sendDataTo runs exactly when the recipient has a mailbox at that moment;
\* then the step is that call (the envelope is in the recipient's queue
\* afterwards or was emitted for the recipient), and otherwise nothing is
\* appended, emitted as data or counted, no mailbox appears for the
\* recipient, and the sender gets the 404 error: no envelope is appended for,
\* or lost to, a missing mailbox.
C34_EnqueueStep ==
    \A c \in Conns, p \in PeerIds :
        ( lastOp'.op = "data" /\ Data(c, p) )
        => IF hasOwn(REGISTERED_USERS, p)
           THEN LET r == sendDataTo(REGISTERED_USERS, p, NextEnvelope[1], NextEnvelope[2])
                IN  /\ REGISTERED_USERS' = r.users
                    /\ emits' = r.emits
                    /\ accepted' = accepted + 1
                    /\ \/ \E i \in 1 .. Len(REGISTERED_USERS'[p].queue) :
                             REGISTERED_USERS'[p].queue[i] = NextEnvelope
                       \/ \E i \in 1 .. Len(emits') :
                             /\ emits'[i].type = "data" /\ emits'[i].for = p
                             /\ << emits'[i].token, emits'[i].payload >> = NextEnvelope
           ELSE /\ REGISTERED_USERS' = REGISTERED_USERS
                /\ ~hasOwn(REGISTERED_USERS', p)
                /\ accepted' = accepted
                /\ emits' = << [to |-> c, type |-> "error", code |-> 404, peer |-> p] >>

C34_EnqueuePrecondition == [][C34_EnqueueStep]_vars

\* a socket whose identity has a mailbox, and which has had an envelope
\* accepted, has just sent data for a recipient that has no mailbox and was
\* answered with the 404 error
C34_Witness ==
    /\ lastOp.op = "data"
    /\ accepted >= 1
    /\ hasOwn(REGISTERED_USERS, clientKeyId(lastOp.c))
    /\ Len(emits) = 1
    /\ emits[1].type = "error" /\ emits[1].to = lastOp.c
    /\ ~hasOwn(REGISTERED_USERS, emits[1].peer)

====
